---- MODULE Spec2Model ----
(***************************************************************************)
(* Hell Clock Graveyard: the save-file ingestion pipeline of               *)
(* src/src/saveFileParser.ts (validateSaveFile, getLastRunStats,           *)
(* getValueFromSerializedList, getRequiredValue, sumCareerStats,           *)
(* extractDeathPayload),                                                   *)
(* and the upload component of src/unnamed/part_004 (UploadCrypt) that     *)
(* runs it on a chosen file and submits the payload, with the fingerprint  *)
(* of src/src/lib/hash.ts, to the deaths table of supabase/schema.sql.     *)
(*                                                                         *)
(* A parsed JSON document is a tree of tagged JavaScript values            *)
(* [t |-> tag, v |-> content].  Numbers are kept in fixed point, Scale     *)
(* sub-units per 1, so that the fractional numbers JSON.parse can produce  *)
(* exist in the model: Num(k) is the number k, Frac(n) the number n/Scale. *)
(* An absent property is the value Undef, which is what a JavaScript       *)
(* property read of it yields.                                             *)
(***************************************************************************)
EXTENDS Integers, Sequences, FiniteSets, Bags, TLC

\* the pipeline run on one document, and the two lookups run on their own
VARIABLES doc, pc, validation, result, lkList, lkKey, lkOpt, lkReq

\* the state of the UploadCrypt component, the bag of its file readers still
\* loading (their onload handlers can run in any order), the
\* number of files chosen so far, the reader whose onload ran last, its
\* handleSubmit calls, and the deaths table of the store
VARIABLES fileError, payload, rawJson, heroName, submitStatus, submitMessage,
          readers, loads, onloadDone, submits, deathsTable

\* history: the text of the file from which the payload in state was extracted
VARIABLES payloadSource

\* one ingestion after another of raw texts by submitters: the call of
\* generateUniqueHash of the current one, and the ingestions that have ended
VARIABLES hashing, ingested

ingestVars == <<hashing, ingested>>

\* the graveyard view (App): its useState values deaths, loading and error, the
\* number of calls of fetchDeaths awaiting their select, the number of calls
\* made so far, the outcome of the call that completed last, and the ids of
\* the rendered tombstones whose hasPaidRespects is set
VARIABLES deathsList, loading, loadError, fetching, fetched, lastFetch, hasPaidRespects

appVars == <<deathsList, loading, loadError, fetching, fetched, lastFetch, hasPaidRespects>>

parserVars == <<doc, pc, validation, result, lkList, lkKey, lkOpt, lkReq>>

componentVars == <<fileError, payload, rawJson, heroName, submitStatus, submitMessage>>

uploadVars == <<fileError, payload, rawJson, heroName, submitStatus, submitMessage,
                readers, loads, onloadDone, submits, deathsTable, payloadSource>>

vars == <<doc, pc, validation, result, lkList, lkKey, lkOpt, lkReq,
          fileError, payload, rawJson, heroName, submitStatus, submitMessage,
          readers, loads, onloadDone, submits, deathsTable, payloadSource,
          hashing, ingested,
          deathsList, loading, loadError, fetching, fetched, lastFetch, hasPaidRespects>>

(***************************************************************************)
(* Bounds of the model.                                                    *)
(***************************************************************************)
Scale == 2
MaxListLen == 2
MaxDamage == 2
MaxSlots == 6
MaxRuns == 2

(***************************************************************************)
(* JavaScript values.                                                      *)
(***************************************************************************)
Undef == [t |-> "undefined", v |-> 0]
Null == [t |-> "null", v |-> 0]
Frac(n) == [t |-> "number", v |-> n]
Num(k) == Frac(k * Scale)
Str(s) == [t |-> "string", v |-> s]
Bool(b) == [t |-> "boolean", v |-> b]
Arr(s) == [t |-> "array", v |-> s]
Obj(r) == [t |-> "object", v |-> r]

\* typeof x
TypeOf(x) == IF x.t \in {"null", "array", "object"} THEN "object" ELSE x.t

\* the truthiness of x, as in `!data`
Truthy(x) ==
  CASE x.t \in {"undefined", "null"} -> FALSE
    [] x.t = "number" -> x.v # 0
    [] x.t = "string" -> x.v # ""
    [] x.t = "boolean" -> x.v
    [] OTHER -> TRUE

\* Array.isArray(x)
IsArray(x) == x.t = "array"

\* the property read x.name (x is never null or undefined where it is used)
Get(x, name) ==
  IF x.t = "object" /\ name \in DOMAIN x.v THEN x.v[name] ELSE Undef

\* typeof x === 'number'
IsNumber(x) == TypeOf(x) = "number"

(***************************************************************************)
(* validateSaveFile                                                        *)
(***************************************************************************)
ValidationError(code, message) == [code |-> code, message |-> message]

\* the return value null of validateSaveFile
NoValidationError == ValidationError("null", "")

\* validateSaveFile with the check on cumulativeTotalDeaths reduced to its type
validateSaveFile_anyDeathCount(data) ==
  IF ~Truthy(data) \/ TypeOf(data) # "object"
  THEN ValidationError("INVALID_STRUCTURE", "Invalid save file: not an object.")
  ELSE IF Get(data, "hardcoreModeEnabled") # Bool(TRUE)
  THEN ValidationError("NOT_HARDCORE",
         "Only Hardcore deaths are accepted. hardcoreModeEnabled must be true.")
  ELSE IF TypeOf(Get(data, "cumulativeTotalDeaths")) # "number"
  THEN ValidationError("NO_DEATH",
         "Save file must have cumulativeTotalDeaths === 1 to submit a death.")
  ELSE IF ~IsArray(Get(data, "pastRunsData")) \/ Len(Get(data, "pastRunsData").v) = 0
  THEN ValidationError("INVALID_STRUCTURE", "pastRunsData is missing or empty.")
  ELSE NoValidationError

validateSaveFile(data) ==
  IF ~Truthy(data) \/ TypeOf(data) # "object"
  THEN ValidationError("INVALID_STRUCTURE", "Invalid save file: not an object.")
  ELSE LET d == data IN
    IF Get(d, "hardcoreModeEnabled") # Bool(TRUE)
    THEN ValidationError("NOT_HARDCORE",
           "Only Hardcore deaths are accepted. hardcoreModeEnabled must be true.")
    ELSE LET cumulativeTotalDeaths == Get(d, "cumulativeTotalDeaths") IN
      IF TypeOf(cumulativeTotalDeaths) # "number" \/ cumulativeTotalDeaths # Num(1)
      THEN ValidationError("NO_DEATH",
             "Save file must have cumulativeTotalDeaths === 1 to submit a death.")
      ELSE LET pastRuns == Get(d, "pastRunsData") IN
        IF ~IsArray(pastRuns) \/ Len(pastRuns.v) = 0
        THEN ValidationError("INVALID_STRUCTURE", "pastRunsData is missing or empty.")
        ELSE NoValidationError

(***************************************************************************)
(* Results of functions that can throw, and thrown Error objects.  The     *)
(* message of an Error built from a template literal is kept as the        *)
(* template and the key interpolated into it.                              *)
(***************************************************************************)
Error(message, key) == [message |-> message, key |-> key]

NoError == Error("", "")

Returned(value) == [thrown |-> FALSE, value |-> value, error |-> NoError]

Thrown(error) == [thrown |-> TRUE, value |-> Undef, error |-> error]

(***************************************************************************)
(* The serialized key-value list helpers.                                  *)
(***************************************************************************)
RECURSIVE FindFrom_lastMatch(_, _, _)
\* find that keeps scanning and returns the last entry with the key
FindFrom_lastMatch(list, key, i) ==
  IF i > Len(list) THEN Undef
  ELSE LET later == FindFrom_lastMatch(list, key, i + 1) IN
    IF later # Undef THEN later
    ELSE IF Get(list[i], "Key") = Str(key) THEN list[i]
    ELSE Undef

RECURSIVE FindFrom(_, _, _)
\* serializedList.find((x) => x.Key === key), scanning from index i
FindFrom(list, key, i) ==
  IF i > Len(list) THEN Undef
  ELSE IF Get(list[i], "Key") = Str(key) THEN list[i]
  ELSE FindFrom(list, key, i + 1)

Find(list, key) == FindFrom(list, key, 1)

getValueFromSerializedList(serializedList, key) ==
  IF ~IsArray(serializedList) THEN Num(0)
  ELSE LET item == Find(serializedList.v, key) IN
    IF IsNumber(Get(item, "Value")) THEN Get(item, "Value") ELSE Num(0)

\* getRequiredValue that defaults to 0 as the optional lookup does
getRequiredValue_defaulting(serializedList, key) ==
  IF ~IsArray(serializedList) THEN Returned(Num(0))
  ELSE LET item == Find(serializedList.v, key) IN
    IF ~IsNumber(Get(item, "Value")) THEN Returned(Num(0))
    ELSE Returned(Get(item, "Value"))

getRequiredValue(serializedList, key) ==
  IF ~IsArray(serializedList)
  THEN Thrown(Error("Validation Error: Missing stat block containing ${key}.", key))
  ELSE LET item == Find(serializedList.v, key) IN
    IF ~IsNumber(Get(item, "Value"))
    THEN Thrown(Error("Validation Error: Missing required field '${key}'.", key))
    ELSE Returned(Get(item, "Value"))

(***************************************************************************)
(* getLastRunStats                                                         *)
(***************************************************************************)
\* the first run instead of the last
lastRunOf_first(pastRuns) == pastRuns[1]

\* pastRuns[pastRuns.length - 1]
lastRunOf(pastRuns) == pastRuns[Len(pastRuns)]

\* the first damage instance instead of the last
lastInstanceOf_first(damageInstances) == damageInstances[1]

\* damageInstances[damageInstances.length - 1]
lastInstanceOf(damageInstances) == damageInstances[Len(damageInstances)]

\* the damage history checked before the two required statistics
getLastRunStats_damageFirst(data) ==
  LET pastRuns == Get(data, "pastRunsData").v
      lastRun == lastRunOf(pastRuns)
      cntList == Get(Get(lastRun, "_statCounters"), "_serializedList")
      aggList == Get(Get(lastRun, "_statAggregators"), "_serializedList")
      level == getRequiredValue(cntList, "LevelAchieved")
      lastRunDuration == getRequiredValue(aggList, "RunTime")
      damageInstances == Get(lastRun, "_lastDamageInstances")
      lastInstance == lastInstanceOf(damageInstances.v)
  IN
  IF ~IsArray(damageInstances) \/ Len(damageInstances.v) = 0
  THEN Thrown(Error("Validation Error: No damage history found. (Did you take damage?)", ""))
  ELSE IF level.thrown THEN level
  ELSE IF lastRunDuration.thrown THEN lastRunDuration
  ELSE IF ~IsNumber(Get(lastInstance, "_totalDamage"))
  THEN Thrown(Error("Validation Error: Missing _totalDamage in last damage instance.", ""))
  ELSE Returned([
    level |-> level.value,
    damageTaken |-> Get(lastInstance, "_totalDamage"),
    lastRunKills |-> getValueFromSerializedList(cntList, "EnemiesDefeated"),
    lastRunSoulstones |-> getValueFromSerializedList(cntList, "SoulStonesCollected"),
    lastRunRegularKills |-> getValueFromSerializedList(cntList, "RegularEnemiesDefeated"),
    lastRunEliteKills |-> getValueFromSerializedList(cntList, "EliteEnemiesDefeated"),
    lastRunBossKills |-> getValueFromSerializedList(cntList, "BossEnemiesDefeated"),
    lastRunGold |-> getValueFromSerializedList(aggList, "GoldGained"),
    lastRunDamageDealt |-> getValueFromSerializedList(aggList, "DamageDealt"),
    lastRunDuration |-> lastRunDuration.value ])

getLastRunStats(data) ==
  LET pastRuns == Get(data, "pastRunsData").v
      lastRun == lastRunOf(pastRuns)
      cntList == Get(Get(lastRun, "_statCounters"), "_serializedList")
      aggList == Get(Get(lastRun, "_statAggregators"), "_serializedList")
      level == getRequiredValue(cntList, "LevelAchieved")
      lastRunDuration == getRequiredValue(aggList, "RunTime")
      damageInstances == Get(lastRun, "_lastDamageInstances")
      lastInstance == lastInstanceOf(damageInstances.v)
  IN
  IF level.thrown THEN level
  ELSE IF lastRunDuration.thrown THEN lastRunDuration
  ELSE IF ~IsArray(damageInstances) \/ Len(damageInstances.v) = 0
  THEN Thrown(Error("Validation Error: No damage history found. (Did you take damage?)", ""))
  ELSE IF ~IsNumber(Get(lastInstance, "_totalDamage"))
  THEN Thrown(Error("Validation Error: Missing _totalDamage in last damage instance.", ""))
  ELSE Returned([
    level |-> level.value,
    damageTaken |-> Get(lastInstance, "_totalDamage"),
    lastRunKills |-> getValueFromSerializedList(cntList, "EnemiesDefeated"),
    lastRunSoulstones |-> getValueFromSerializedList(cntList, "SoulStonesCollected"),
    lastRunRegularKills |-> getValueFromSerializedList(cntList, "RegularEnemiesDefeated"),
    lastRunEliteKills |-> getValueFromSerializedList(cntList, "EliteEnemiesDefeated"),
    lastRunBossKills |-> getValueFromSerializedList(cntList, "BossEnemiesDefeated"),
    lastRunGold |-> getValueFromSerializedList(aggList, "GoldGained"),
    lastRunDamageDealt |-> getValueFromSerializedList(aggList, "DamageDealt"),
    lastRunDuration |-> lastRunDuration.value ])

(***************************************************************************)
(* sumCareerStats                                                          *)
(***************************************************************************)
\* an assignment in place of the addition
Plus_assign(a, b) == Frac(b.v)

\* a + b on two numbers
Plus(a, b) == Frac(a.v + b.v)

RECURSIVE sumCareerStatsFrom(_, _, _)
\* the for-of loop of sumCareerStats from run i on, with the running totals
sumCareerStatsFrom(pastRunsData, i, totals) ==
  IF i > Len(pastRunsData) THEN totals
  ELSE LET run == pastRunsData[i]
           aggList == Get(Get(run, "_statAggregators"), "_serializedList")
           cntList == Get(Get(run, "_statCounters"), "_serializedList")
       IN sumCareerStatsFrom(pastRunsData, i + 1, [
            totalGold |-> Plus(totals.totalGold, getValueFromSerializedList(aggList, "GoldGained")),
            totalSoulstones |-> Plus(totals.totalSoulstones,
                                     getValueFromSerializedList(cntList, "SoulStonesCollected")),
            totalKills |-> Plus(totals.totalKills,
                                getValueFromSerializedList(cntList, "EnemiesDefeated")),
            totalEliteKills |-> Plus(totals.totalEliteKills,
                                     getValueFromSerializedList(cntList, "EliteEnemiesDefeated")),
            totalBosses |-> Plus(totals.totalBosses,
                                 getValueFromSerializedList(cntList, "BossEnemiesDefeated")) ])

\* sumCareerStats that reads the final run only
sumCareerStats_lastRunOnly(pastRunsData) ==
  sumCareerStatsFrom(pastRunsData, Len(pastRunsData),
    [totalGold |-> Num(0), totalSoulstones |-> Num(0), totalKills |-> Num(0),
     totalEliteKills |-> Num(0), totalBosses |-> Num(0)])

\* sumCareerStats that leaves the final run out
sumCareerStats_withoutFinalRun(pastRunsData) ==
  sumCareerStatsFrom(SubSeq(pastRunsData, 1, Len(pastRunsData) - 1), 1,
    [totalGold |-> Num(0), totalSoulstones |-> Num(0), totalKills |-> Num(0),
     totalEliteKills |-> Num(0), totalBosses |-> Num(0)])

sumCareerStats(pastRunsData) ==
  sumCareerStatsFrom(pastRunsData, 1,
    [totalGold |-> Num(0), totalSoulstones |-> Num(0), totalKills |-> Num(0),
     totalEliteKills |-> Num(0), totalBosses |-> Num(0)])

(***************************************************************************)
(* extractDeathPayload                                                     *)
(***************************************************************************)
\* the number of skill ids kept by skillIds.slice(0, 5)
LoadoutSize == 5

\* the empty-slot sentinel of _skillHashId
EmptySlot == Num(-1)

\* the ids of all slots, empty ones included
equippedSkills_unfiltered(skillSlots) ==
  [i \in 1..Len(skillSlots) |-> Get(skillSlots[i], "_skillHashId")]

\* skillSlots.filter((slot) => slot._skillHashId !== -1).map((slot) => slot._skillHashId)
equippedSkills(skillSlots) ==
  LET kept == SelectSeq(skillSlots, LAMBDA slot : Get(slot, "_skillHashId") # EmptySlot)
  IN [i \in 1..Len(kept) |-> Get(kept[i], "_skillHashId")]

\* s.slice(0, n)
Slice0(s, n) == SubSeq(s, 1, IF Len(s) < n THEN Len(s) ELSE n)

\* level > 0 ? level : 1
\* the fallback level whatever the run reached
finalLevel_fallback(level) == Num(1)

finalLevel(level) == IF level.v > 0 THEN level ELSE Num(1)

\* a top-level field that is defaulted to 0 instead of being required
requireNumber_defaulting(value, message) ==
  IF ~IsNumber(value) THEN Returned(Num(0)) ELSE Returned(value)

\* if (typeof value !== 'number') throw new Error(message); otherwise the value
requireNumber(value, message) ==
  IF ~IsNumber(value) THEN Thrown(Error(message, "")) ELSE Returned(value)

extractDeathPayload(data) ==
  LET stats == getLastRunStats(data)
      career == sumCareerStats(Get(data, "pastRunsData").v)
      gameplayTime == requireNumber(Get(data, "gameplayTime"),
                        "Validation Error: Missing required field path 'gameplayTime'")
      careerRuns == requireNumber(Get(data, "cumulativeTotalRuns"),
                      "Validation Error: Missing required field path 'cumulativeTotalRuns'")
      skillSlots == Get(data, "skillSlots")
      skillIds == IF IsArray(skillSlots) THEN equippedSkills(skillSlots.v) ELSE <<>>
  IN
  IF stats.thrown THEN stats
  ELSE IF gameplayTime.thrown THEN gameplayTime
  ELSE IF careerRuns.thrown THEN careerRuns
  ELSE Returned([
    level |-> finalLevel(stats.value.level),
    damageTaken |-> stats.value.damageTaken,
    careerSeconds |-> gameplayTime.value,
    careerRuns |-> careerRuns.value,
    careerKills |-> career.totalKills,
    careerEliteKills |-> career.totalEliteKills,
    careerBosses |-> career.totalBosses,
    careerGold |-> career.totalGold,
    careerSoulstones |-> career.totalSoulstones,
    skillIds |-> Slice0(skillIds, LoadoutSize),
    lastRunKills |-> stats.value.lastRunKills,
    lastRunSoulstones |-> stats.value.lastRunSoulstones,
    lastRunRegularKills |-> stats.value.lastRunRegularKills,
    lastRunEliteKills |-> stats.value.lastRunEliteKills,
    lastRunBossKills |-> stats.value.lastRunBossKills,
    lastRunGold |-> stats.value.lastRunGold,
    lastRunDamageDealt |-> stats.value.lastRunDamageDealt,
    lastRunDuration |-> stats.value.lastRunDuration ])

(***************************************************************************)
(* The documents the pipeline is run on: what JSON.parse can return for an *)
(* uploaded file.  Elements of pastRunsData, of a serialized list, of the  *)
(* damage instances and of skillSlots are objects; every property of an    *)
(* object can be absent or hold a value of the wrong type.                 *)
(***************************************************************************)
SeqsUpTo(S, n) == UNION {[1..k -> S] : k \in 0..n}

Entry(key, value) == Obj([Key |-> Str(key), Value |-> value])

Block(list) == Obj([_serializedList |-> list])

Instance(total) == Obj([_totalDamage |-> total])

Slot(id) == Obj([_skillHashId |-> id])

Run(cnt, agg, dmg) ==
  Obj([_statCounters |-> cnt, _statAggregators |-> agg, _lastDamageInstances |-> dmg])

Save(hardcore, deaths, runs, time, totalRuns, slots) ==
  Obj([hardcoreModeEnabled |-> hardcore, cumulativeTotalDeaths |-> deaths,
       pastRunsData |-> runs, gameplayTime |-> time,
       cumulativeTotalRuns |-> totalRuns, skillSlots |-> slots])

\* counters: LevelAchieved and EnemiesDefeated vary, the other keys come in a tail
CntEntries ==
  {Entry("LevelAchieved", v) : v \in {Num(0), Frac(1), Num(2), Num(-1), Str("x")}}
    \cup {Entry("EnemiesDefeated", v) : v \in {Num(3), Num(-1)}}

CntTails ==
  { <<>>,
    <<Entry("RegularEnemiesDefeated", Num(2)), Entry("EliteEnemiesDefeated", Num(1)),
      Entry("BossEnemiesDefeated", Num(1)), Entry("SoulStonesCollected", Num(4))>> }

AggEntries ==
  {Entry("RunTime", v) : v \in {Num(4), Str("x")}}
    \cup {Entry("GoldGained", v) : v \in {Num(6), Num(-1)}}

AggTails == { <<>>, <<Entry("DamageDealt", Num(9))>> }

GoodCnt == Block(Arr(<<Entry("LevelAchieved", Num(2)), Entry("EnemiesDefeated", Num(3))>>))

GoodAgg == Block(Arr(<<Entry("RunTime", Num(4)), Entry("GoldGained", Num(6))>>))

GoodDmg == Arr(<<Instance(Num(7))>>)

GoodSlots == Arr(<<Slot(Num(5)), Slot(Num(-1)), Slot(Num(7))>>)

GoodRun == Run(GoodCnt, GoodAgg, GoodDmg)

FullCnt ==
  {Undef, Block(Undef), Block(Str("x"))}
    \cup {Block(Arr(l \o tl)) : l \in SeqsUpTo(CntEntries, MaxListLen), tl \in CntTails}

FullAgg ==
  {Undef, Block(Undef), Block(Str("x"))}
    \cup {Block(Arr(l \o tl)) : l \in SeqsUpTo(AggEntries, MaxListLen), tl \in AggTails}

FullDmg ==
  {Undef, Str("x")}
    \cup {Arr(l) : l \in SeqsUpTo({Instance(Num(7)), Instance(Num(-1)),
                                   Instance(Undef), Instance(Str("7"))}, MaxDamage)}

FullTop == {Num(5), Undef, Str("5"), Num(-1)} \X {Num(3), Undef, Num(-1)}

FullSlots ==
  {Undef, Str("x")}
    \cup {Arr(l) : l \in SeqsUpTo({Slot(Num(-1)), Slot(Num(5)), Slot(Num(7))}, MaxSlots)}

SmallCnt == {GoodCnt, Undef}

SmallAgg == {GoodAgg, Block(Arr(<<>>))}

SmallDmg == {GoodDmg, Arr(<<>>)}

SmallTop == {<<Num(5), Num(3)>>, <<Undef, Num(3)>>}

\* a document that passes validateSaveFile, with the given run history
Valid(runs, top, slots) == Save(Bool(TRUE), Num(1), Arr(runs), top[1], top[2], slots)

\* one part of the final run or of the top level varies fully, the others a little
RunDocs ==
  {Valid(<<Run(c, a, d)>>, t, GoodSlots) : c \in FullCnt, a \in SmallAgg, d \in SmallDmg, t \in SmallTop}
    \cup {Valid(<<Run(c, a, d)>>, t, GoodSlots) : c \in SmallCnt, a \in FullAgg, d \in SmallDmg, t \in SmallTop}
    \cup {Valid(<<Run(c, a, d)>>, t, GoodSlots) : c \in SmallCnt, a \in SmallAgg, d \in FullDmg, t \in SmallTop}
    \cup {Valid(<<Run(c, a, d)>>, t, GoodSlots) : c \in SmallCnt, a \in SmallAgg, d \in SmallDmg, t \in FullTop}

SlotDocs == {Valid(<<GoodRun>>, <<Num(5), Num(3)>>, sl) : sl \in FullSlots}

\* earlier runs before the final one
EarlierRuns ==
  { GoodRun, Run(Undef, Undef, Undef),
    Run(Block(Arr(<<Entry("EnemiesDefeated", Num(-1))>>)), Block(Arr(<<>>)), Arr(<<>>)) }

HistDocs ==
  {Valid(h \o <<Run(c, a, d)>>, <<Num(5), Num(3)>>, GoodSlots) :
     h \in SeqsUpTo(EarlierRuns, MaxRuns - 1), c \in SmallCnt, a \in SmallAgg, d \in SmallDmg}

\* a run that holds every key the career totals read
RichRun ==
  Run(Block(Arr(<<Entry("LevelAchieved", Num(2)), Entry("EnemiesDefeated", Num(3)),
                  Entry("EliteEnemiesDefeated", Num(1)), Entry("BossEnemiesDefeated", Num(1)),
                  Entry("SoulStonesCollected", Num(4))>>)),
      Block(Arr(<<Entry("RunTime", Num(4)), Entry("GoldGained", Num(6))>>)),
      GoodDmg)

\* a run without aggregators and with a counter of the wrong type
PoorRun ==
  Run(Block(Arr(<<Entry("LevelAchieved", Num(1)), Entry("SoulStonesCollected", Num(1)),
                  Entry("BossEnemiesDefeated", Str("x"))>>)),
      Undef, Arr(<<Instance(Num(1))>>))

\* run histories whose runs differ in every career statistic
CareerDocs ==
  {Valid(h \o <<last>>, <<Num(5), Num(3)>>, GoodSlots) :
     h \in SeqsUpTo(EarlierRuns \cup {RichRun, PoorRun}, MaxRuns - 1),
     last \in {GoodRun, RichRun}}

\* the end-to-end scenario of the specification
ScenarioDoc ==
  Valid(<<Run(Block(Arr(<<Entry("LevelAchieved", Num(12)), Entry("EnemiesDefeated", Num(50))>>)),
              Block(Arr(<<Entry("RunTime", Num(300))>>)),
              Arr(<<Instance(Num(1)), Instance(Num(999))>>))>>,
        <<Num(3600), Num(4)>>, Undef)

\* documents of every shape at the top level
TopDocs ==
  {Undef, Null, Num(0), Num(1), Str(""), Str("x"), Bool(FALSE), Bool(TRUE),
   Arr(<<>>), Arr(<<GoodRun>>)}
    \cup {Save(h, n, r, t[1], t[2], GoodSlots) :
            h \in {Undef, Bool(TRUE), Bool(FALSE), Num(1), Str("true")},
            n \in {Undef, Num(0), Num(1), Frac(1), Num(2), Str("1")},
            r \in {Undef, Null, Str("x"), GoodRun, Arr(<<>>), Arr(<<GoodRun>>)},
            t \in SmallTop}

Docs == TopDocs \cup RunDocs \cup SlotDocs \cup HistDocs \cup CareerDocs \cup {ScenarioDoc}

\* the lists and keys the two lookups are called on directly
LookupLists ==
  {Undef, Null, Str("x")}
    \cup {Arr(l) : l \in SeqsUpTo({Entry(k, v) : k \in {"LevelAchieved", "RunTime"},
                                                 v \in {Num(0), Num(2), Str("x")}}, MaxListLen)}

LookupKeys == {"LevelAchieved", "RunTime", "GoldGained"}

(***************************************************************************)
(* The state machine.  The pipeline runs validateSaveFile on a parsed      *)
(* document and, as its callers do, extractDeathPayload only when the      *)
(* validation returned null.  The two lookups are also run on their own.   *)
(***************************************************************************)
\* the value of a result variable before the function has been called
Pending == Returned(Undef)

\* the six useState values of a mounted UploadCrypt
Mounted ==
  /\ fileError = Null
  /\ payload = Null
  /\ rawJson = ""
  /\ heroName = ""
  /\ submitStatus = "idle"
  /\ submitMessage = ""

\* the value of onloadDone before any onload handler has run
NoReader == [path |-> "", text |-> "", readyState |-> "EMPTY",
             validationError |-> NoValidationError, extracted |-> Pending]

\* a call of generateUniqueHash: its payload argument, the string it encodes
\* and the hex digest it resolves to, both "" before the call
Hashing(userId, rawSnapshot) ==
  [userId |-> userId, rawSnapshot |-> rawSnapshot, str |-> "", hex |-> ""]

\* nothing is being ingested outside the component
NotIngesting ==
  /\ hashing = Hashing("", "")
  /\ ingested = <<>>

\* the useState values of App before its effect has run, no call of fetchDeaths
NoFetch ==
  /\ deathsList = <<>>
  /\ loading = TRUE
  /\ loadError = Null
  /\ fetching = 0
  /\ fetched = 0
  /\ lastFetch = "none"
  /\ hasPaidRespects = {}

\* no file is being read, no submission is running, the table is empty
Quiet ==
  /\ readers = EmptyBag
  /\ loads = 0
  /\ onloadDone = NoReader
  /\ submits = <<>>
  /\ deathsTable = {}
  /\ payloadSource = ""

InitPipeline ==
  /\ Mounted /\ Quiet /\ NoFetch /\ NotIngesting
  /\ doc \in Docs
  /\ pc = "parsed"
  /\ validation = NoValidationError
  /\ result = Pending
  /\ lkList = Undef
  /\ lkKey = ""
  /\ lkOpt = Pending
  /\ lkReq = Pending

InitLookup ==
  /\ Mounted /\ Quiet /\ NoFetch /\ NotIngesting
  /\ doc = Undef
  /\ pc = "lookup"
  /\ validation = NoValidationError
  /\ result = Pending
  /\ lkList \in LookupLists
  /\ lkKey \in LookupKeys
  /\ lkOpt = Pending
  /\ lkReq = Pending

Init == InitPipeline \/ InitLookup

Validate ==
  /\ pc = "parsed"
  /\ validation' = validateSaveFile(doc)
  /\ pc' = "validated"
  /\ UNCHANGED <<doc, result, lkList, lkKey, lkOpt, lkReq>>
  /\ UNCHANGED uploadVars
  /\ UNCHANGED ingestVars
  /\ UNCHANGED appVars

\* an extraction that takes the final run off the document it is given
Extract_consuming ==
  /\ pc = "validated"
  /\ validation = NoValidationError
  /\ result' = extractDeathPayload(doc)
  /\ pc' = "extracted"
  /\ doc' = Obj([doc.v EXCEPT !.pastRunsData = Arr(<<>>)])
  /\ UNCHANGED <<validation, lkList, lkKey, lkOpt, lkReq>>
  /\ UNCHANGED uploadVars
  /\ UNCHANGED ingestVars
  /\ UNCHANGED appVars

Extract ==
  /\ pc = "validated"
  /\ validation = NoValidationError
  /\ result' = extractDeathPayload(doc)
  /\ pc' = "extracted"
  /\ UNCHANGED <<doc, validation, lkList, lkKey, lkOpt, lkReq>>
  /\ UNCHANGED uploadVars
  /\ UNCHANGED ingestVars
  /\ UNCHANGED appVars

LookupOptional ==
  /\ pc = "lookup"
  /\ lkOpt = Pending
  /\ lkOpt' = Returned(getValueFromSerializedList(lkList, lkKey))
  /\ UNCHANGED <<doc, pc, validation, result, lkList, lkKey, lkReq>>
  /\ UNCHANGED uploadVars
  /\ UNCHANGED ingestVars
  /\ UNCHANGED appVars

LookupRequired ==
  /\ pc = "lookup"
  /\ lkReq = Pending
  /\ lkReq' = getRequiredValue(lkList, lkKey)
  /\ UNCHANGED <<doc, pc, validation, result, lkList, lkKey, lkOpt>>
  /\ UNCHANGED uploadVars
  /\ UNCHANGED ingestVars
  /\ UNCHANGED appVars

Next == Validate \/ Extract \/ LookupOptional \/ LookupRequired

Spec == Init /\ [][Next]_vars

(***************************************************************************)
(* Vocabulary of the properties, stated on the document itself.            *)
(***************************************************************************)
\* validateSaveFile has been run on doc
Validated == pc \in {"validated", "extracted"}

\* extractDeathPayload has been run on doc
Extracted == pc = "extracted"

\* extractDeathPayload has returned a payload
HasPayload == Extracted /\ ~result.thrown

\* a keyed object: neither absent, nor a primitive, nor an array
IsKeyedObject(x) == x.t = "object"

IsNonEmptySequence(x) == x.t = "array" /\ x.v # <<>>

HardcoreOk(x) == x.v.hardcoreModeEnabled = Bool(TRUE)

DeathsOk(x) == x.v.cumulativeTotalDeaths = Num(1)

PastRunsOk(x) == IsNonEmptySequence(x.v.pastRunsData)

ValidationCodes == {"INVALID_STRUCTURE", "NOT_HARDCORE", "NO_DEATH"}

\* the error kind of the earliest failing check, "null" when none fails
FirstFailingCheck(x) ==
  CASE ~IsKeyedObject(x) -> "INVALID_STRUCTURE"
    [] IsKeyedObject(x) /\ ~HardcoreOk(x) -> "NOT_HARDCORE"
    [] IsKeyedObject(x) /\ HardcoreOk(x) /\ ~DeathsOk(x) -> "NO_DEATH"
    [] IsKeyedObject(x) /\ HardcoreOk(x) /\ DeathsOk(x) /\ ~PastRunsOk(x) -> "INVALID_STRUCTURE"
    [] OTHER -> "null"

\* C1: validateSaveFile returns null exactly for the keyed objects whose
\* hardcoreModeEnabled is true, whose cumulativeTotalDeaths is the number 1 and
\* whose pastRunsData is a non-empty sequence; for every other document it
\* returns one of the validation errors.
C1_AcceptsExactlyHardcoreDeaths ==
  Validated =>
    /\ validation = NoValidationError <=>
         (IsKeyedObject(doc) /\ HardcoreOk(doc) /\ DeathsOk(doc) /\ PastRunsOk(doc))
    /\ validation # NoValidationError => validation.code \in ValidationCodes

C1_Witness ==
  /\ Validated
  /\ validation = NoValidationError
  /\ IsKeyedObject(doc) /\ HardcoreOk(doc) /\ DeathsOk(doc) /\ PastRunsOk(doc)

\* C2: validateSaveFile reports the error kind of the earliest failing check
\* in the order keyed object, hardcoreModeEnabled, cumulativeTotalDeaths,
\* pastRunsData.
C2_EarliestFailingCheck == Validated => validation.code = FirstFailingCheck(doc)

\* C3: a document that is absent or is not a keyed object (a primitive, a
\* top-level array) gets INVALID_STRUCTURE.
C3_NotAKeyedObject ==
  Validated /\ ~IsKeyedObject(doc) => validation.code = "INVALID_STRUCTURE"

\* the final element of pastRunsData of a validated document
FinalRun == LET runs == doc.v.pastRunsData.v IN runs[Len(runs)]

\* the serialized list under a stat block, Undef when the block is absent
ListOf(block) == IF block.t = "object" THEN block.v._serializedList ELSE Undef

CntList == ListOf(FinalRun.v._statCounters)

AggList == ListOf(FinalRun.v._statAggregators)

DamageList == FinalRun.v._lastDamageInstances

Matches(list, key) == {i \in 1..Len(list.v) : list.v[i].v.Key = Str(key)}

\* the list is a sequence with an entry for the key
HasEntry(list, key) == list.t = "array" /\ Matches(list, key) # {}

\* the Value of the first entry with the key
FirstValue(list, key) ==
  LET i == CHOOSE m \in Matches(list, key) : \A n \in Matches(list, key) : m <= n
  IN list.v[i].v.Value

\* the first entry with the key holds a number
HasNumber(list, key) == HasEntry(list, key) /\ FirstValue(list, key).t = "number"

LevelPresent == HasNumber(CntList, "LevelAchieved")

RunTimePresent == HasNumber(AggList, "RunTime")

LastTotal == DamageList.v[Len(DamageList.v)].v._totalDamage

\* every required item of the final run is present
RunComplete ==
  /\ LevelPresent
  /\ RunTimePresent
  /\ IsNonEmptySequence(DamageList)
  /\ LastTotal.t = "number"

MissingBlockMessage == "Validation Error: Missing stat block containing ${key}."

MissingKeyMessage == "Validation Error: Missing required field '${key}'."

NoDamageHistoryMessage == "Validation Error: No damage history found. (Did you take damage?)"

MissingTotalDamageMessage == "Validation Error: Missing _totalDamage in last damage instance."

MissingGameplayTimeMessage == "Validation Error: Missing required field path 'gameplayTime'"

MissingTotalRunsMessage == "Validation Error: Missing required field path 'cumulativeTotalRuns'"

\* the messages that report a missing field
MissingFieldMessages ==
  {MissingBlockMessage, MissingKeyMessage, MissingTotalDamageMessage,
   MissingGameplayTimeMessage, MissingTotalRunsMessage}

\* the error is a missing-field error that names the key of a serialized list
NamesKey(error, key) ==
  error.message \in {MissingBlockMessage, MissingKeyMessage} /\ error.key = key

C5_Outcome ==
  /\ lkOpt # Pending =>
       /\ ~HasEntry(lkList, lkKey) => lkOpt.value = Num(0)
       /\ HasNumber(lkList, lkKey) => lkOpt.value = FirstValue(lkList, lkKey)
  /\ lkReq # Pending =>
       /\ ~HasEntry(lkList, lkKey) => lkReq.thrown /\ NamesKey(lkReq.error, lkKey)
       /\ HasNumber(lkList, lkKey) =>
            ~lkReq.thrown /\ lkReq.value = FirstValue(lkList, lkKey)

GameplayTime == doc.v.gameplayTime

TotalRuns == doc.v.cumulativeTotalRuns

C8_LevelAtLeastOne ==
  HasPayload =>
    /\ result.value.level.v >= Num(1).v
    /\ FirstValue(CntList, "LevelAchieved").v >= Num(1).v =>
         result.value.level = FirstValue(CntList, "LevelAchieved")
    /\ FirstValue(CntList, "LevelAchieved") = Num(0) => result.value.level = Num(1)

NumericFields ==
  {"level", "damageTaken", "careerSeconds", "careerRuns", "careerKills",
   "careerEliteKills", "careerBosses", "careerGold", "careerSoulstones",
   "lastRunKills", "lastRunSoulstones", "lastRunRegularKills", "lastRunEliteKills",
   "lastRunBossKills", "lastRunGold", "lastRunDamageDealt", "lastRunDuration"}

\* C9: every numeric field of a returned payload is non-negative.
C9_NoNegativeField ==
  HasPayload => \A f \in NumericFields : result.value[f].v >= 0

SkillSlots == doc.v.skillSlots

\* the positions of the slots that do not hold the sentinel -1
Equipped == {i \in 1..Len(SkillSlots.v) : SkillSlots.v[i].v._skillHashId # Num(-1)}

\* the position of the k-th such slot
KthEquipped(k) == CHOOSE i \in Equipped : Cardinality({j \in Equipped : j <= i}) = k

Runs == doc.v.pastRunsData.v

\* the number a run contributes for a key: the Value of the first entry with the
\* key in the list of the block, 0 when the block, the list or a numeric entry
\* is missing
Contribution(run, block, key) ==
  LET list == ListOf(run.v[block]) IN
  IF HasNumber(list, key) THEN FirstValue(list, key).v ELSE 0

RECURSIVE Total(_, _, _, _)
\* the sum of the contributions of the first n runs
Total(runs, n, block, key) ==
  IF n = 0 THEN 0 ELSE Total(runs, n - 1, block, key) + Contribution(runs[n], block, key)

CareerTotals(p) ==
  [totalGold |-> p.careerGold, totalSoulstones |-> p.careerSoulstones,
   totalKills |-> p.careerKills, totalEliteKills |-> p.careerEliteKills,
   totalBosses |-> p.careerBosses]

\* the run list with its elements rearranged by the permutation f of its indices
Permuted(runs, f) == [i \in 1..Len(runs) |-> runs[f[i]]]

FinalRunFields ==
  {"level", "damageTaken", "lastRunKills", "lastRunRegularKills", "lastRunEliteKills",
   "lastRunBossKills", "lastRunSoulstones", "lastRunGold", "lastRunDamageDealt",
   "lastRunDuration"}

\* the histories that may precede the final run
Histories == SeqsUpTo(EarlierRuns \cup {RichRun, PoorRun}, MaxRuns - 1)

\* doc with the runs before the final one replaced by the history h
WithHistory(h) == Obj([doc.v EXCEPT !.pastRunsData = Arr(h \o <<FinalRun>>)])

SingleRunScenario ==
  /\ IsKeyedObject(doc) /\ HardcoreOk(doc) /\ DeathsOk(doc) /\ PastRunsOk(doc)
  /\ Len(Runs) = 1
  /\ GameplayTime.t = "number"
  /\ TotalRuns.t = "number"
  /\ RunComplete
  /\ FirstValue(CntList, "LevelAchieved").v >= Scale
  /\ HasNumber(CntList, "EnemiesDefeated")

\* C14: for a validated document with gameplayTime G, cumulativeTotalRuns R and
\* a single run with LevelAchieved L >= 1, EnemiesDefeated K, RunTime T and a
\* damage list ending in D, validateSaveFile returns null and the payload has
\* level L, damageTaken D, careerSeconds G, careerRuns R, lastRunKills K and
\* lastRunDuration T.
C14_EndToEnd ==
  SingleRunScenario =>
    /\ Validated => validation = NoValidationError
    /\ Extracted =>
         /\ ~result.thrown
         /\ result.value.level = FirstValue(CntList, "LevelAchieved")
         /\ result.value.damageTaken = LastTotal
         /\ result.value.careerSeconds = GameplayTime
         /\ result.value.careerRuns = TotalRuns
         /\ result.value.lastRunKills = FirstValue(CntList, "EnemiesDefeated")
         /\ result.value.lastRunDuration = FirstValue(AggList, "RunTime")

C14_Witness ==
  /\ doc = ScenarioDoc
  /\ SingleRunScenario
  /\ validation = NoValidationError
  /\ HasPayload
  /\ result.value.level = Num(12)
  /\ result.value.damageTaken = Num(999)
  /\ result.value.careerSeconds = Num(3600)
  /\ result.value.careerRuns = Num(4)
  /\ result.value.lastRunKills = Num(50)
  /\ result.value.lastRunDuration = Num(300)

(***************************************************************************)
(* The upload component (UploadCrypt): the files a user can choose, the    *)
(* two ways of loading one, handleSubmit, and the deaths table.            *)
(***************************************************************************)
\* the number of times the user chooses a file, drops one or clicks the button
MaxGestures == 3

\* the documents in the files
GoodDoc == Valid(<<GoodRun>>, <<Num(5), Num(3)>>, GoodSlots)

SoftcoreDoc == Save(Bool(FALSE), Num(1), Arr(<<GoodRun>>), Num(5), Num(3), GoodSlots)

NoRunTimeDoc == Valid(<<Run(GoodCnt, Block(Arr(<<>>)), GoodDmg)>>, <<Num(5), Num(3)>>, GoodSlots)

Level51Doc ==
  Valid(<<Run(Block(Arr(<<Entry("LevelAchieved", Num(51))>>)), GoodAgg, GoodDmg)>>,
        <<Num(5), Num(3)>>, GoodSlots)

NegativeDoc ==
  Valid(<<Run(Block(Arr(<<Entry("LevelAchieved", Num(2)), Entry("EnemiesDefeated", Num(-1))>>)),
              GoodAgg, GoodDmg)>>,
        <<Num(5), Num(3)>>, GoodSlots)

UnharmedDoc == Valid(<<Run(GoodCnt, GoodAgg, Arr(<<Instance(Num(0))>>))>>, <<Num(5), Num(3)>>, GoodSlots)

ExponentDoc == Valid(<<GoodRun>>, <<Num(1000), Num(3)>>, GoodSlots)

\* the contents of the files a user can choose, each named by what it holds
FileTexts ==
  {"good", "gameplayTime 1e3", "not json", "softcore", "no RunTime", "level 51",
   "negative kills", "damage 0"}

\* JSON.parse(text): the document, or a SyntaxError
JSONParse(text) ==
  CASE text \in {"good", "good, trailing newline", "good, keys reordered"} -> Returned(GoodDoc)
    [] text = "softcore" -> Returned(SoftcoreDoc)
    [] text = "no RunTime" -> Returned(NoRunTimeDoc)
    [] text = "level 51" -> Returned(Level51Doc)
    [] text = "negative kills" -> Returned(NegativeDoc)
    [] text = "damage 0" -> Returned(UnharmedDoc)
    [] text = "gameplayTime 1e3" -> Returned(ExponentDoc)
    [] OTHER -> Thrown(Error("SyntaxError", ""))

\* /[0-9][eE][+-]?[0-9]/.test(text)
ScientificNotation(text) == text = "gameplayTime 1e3"

MaxLevel == 50

\* what reader.onload computes from the text of each file: JSON.parse(text),
\* validateSaveFile(data) when the text parses, and extractDeathPayload(data)
\* when the validation returns null
dataOf == [text \in FileTexts |-> JSONParse(text)]

validationErrorOf ==
  [text \in FileTexts |->
     IF dataOf[text].thrown THEN NoValidationError
     ELSE validateSaveFile(dataOf[text].value)]

\* extractDeathPayload called whatever validateSaveFile returned
extractedOf_unvalidated ==
  [text \in FileTexts |->
     IF dataOf[text].thrown THEN Pending ELSE extractDeathPayload(dataOf[text].value)]

extractedOf ==
  [text \in FileTexts |->
     IF dataOf[text].thrown \/ validationErrorOf[text] # NoValidationError THEN Pending
     ELSE extractDeathPayload(dataOf[text].value)]

\* a FileReader given a file by reader.readAsText(file), with the values its
\* onload handler computed once it has run
Reader(path, text) ==
  [path |-> path, text |-> text, readyState |-> "LOADING",
   validationError |-> NoValidationError, extracted |-> Pending]

\* the reader after its onload handler has run
Done(reader, validationError, extracted) ==
  [reader EXCEPT !.readyState = "DONE", !.validationError = validationError,
                 !.extracted = extracted]

\* the six setters called before a new file is processed
ResetState ==
  /\ fileError' = Null
  /\ payload' = Null
  /\ rawJson' = ""
  /\ heroName' = ""
  /\ submitStatus' = "idle"
  /\ submitMessage' = ""
  /\ payloadSource' = ""

\* the change event of the file input: a file was chosen, or none
handleFileChange ==
  /\ loads + Len(submits) < MaxGestures
  /\ ResetState
  /\ loads' = loads + 1
  /\ \/ readers' = readers
     \/ \E text \in FileTexts : readers' = readers (+) SetToBag({Reader("picker", text)})
  /\ onloadDone' = NoReader
  /\ UNCHANGED <<submits, deathsTable>>
  /\ UNCHANGED parserVars
  /\ UNCHANGED ingestVars
  /\ UNCHANGED appVars

\* a file dropped on the drop zone
onDrop ==
  /\ loads + Len(submits) < MaxGestures
  /\ ResetState
  /\ loads' = loads + 1
  /\ \E text \in FileTexts : readers' = readers (+) SetToBag({Reader("drop", text)})
  /\ onloadDone' = NoReader
  /\ UNCHANGED <<submits, deathsTable>>
  /\ UNCHANGED parserVars
  /\ UNCHANGED ingestVars
  /\ UNCHANGED appVars

\* setFileError(message); return
RejectFile(message) ==
  /\ fileError' = Str(message)
  /\ UNCHANGED <<payload, rawJson, heroName, payloadSource>>

\* reader.onload of handleFileChange
PickerOnload(reader) ==
  /\ reader.path = "picker"
  /\ reader.readyState = "LOADING"
  /\ LET text == reader.text
         data == dataOf[text]
         validationError == validationErrorOf[text]
         extracted == extractedOf[text]
     IN /\ readers' = readers (-) SetToBag({reader})
        /\ onloadDone' = Done(reader, validationError, extracted)
        /\ IF data.thrown THEN RejectFile("Invalid JSON.")
           ELSE IF validationError # NoValidationError
           THEN RejectFile(validationError.message)
           ELSE IF extracted.thrown
           THEN UNCHANGED <<fileError, payload, rawJson, heroName, payloadSource>>
           ELSE /\ payload' = extracted.value
                /\ rawJson' = text
                /\ heroName' = ""
                /\ payloadSource' = text
                /\ UNCHANGED fileError
  /\ UNCHANGED <<submitStatus, submitMessage, loads, submits, deathsTable>>
  /\ UNCHANGED parserVars
  /\ UNCHANGED ingestVars
  /\ UNCHANGED appVars

\* Object.values(extracted).some(val => typeof val === 'number' && val < 0)
hasNegative(extracted) ==
  \E f \in DOMAIN extracted \ {"skillIds"} : IsNumber(extracted[f]) /\ extracted[f].v < 0

\* reader.onload of onDrop
DropOnload(reader) ==
  /\ reader.path = "drop"
  /\ reader.readyState = "LOADING"
  /\ LET text == reader.text
         scientific == ScientificNotation(text)
         data == IF scientific THEN Returned(Undef) ELSE dataOf[text]
         validationError == IF scientific THEN NoValidationError ELSE validationErrorOf[text]
         extracted == IF scientific THEN Pending ELSE extractedOf[text]
     IN /\ readers' = readers (-) SetToBag({reader})
        /\ onloadDone' = Done(reader, validationError, extracted)
        /\ IF scientific
           THEN RejectFile("Scientific notation is not allowed. Please use standard numbers.")
           ELSE IF data.thrown THEN RejectFile("Invalid JSON.")
           ELSE IF validationError # NoValidationError
           THEN RejectFile(validationError.message)
           ELSE IF extracted.thrown
           THEN UNCHANGED <<fileError, payload, rawJson, heroName, payloadSource>>
           ELSE IF extracted.value.level.v > MaxLevel * Scale
           THEN RejectFile("Validation Error: Level cannot exceed 50.")
           ELSE IF extracted.value.damageTaken.v <= 0
           THEN RejectFile("Validation Error: Damage taken must be greater than 0.")
           ELSE IF hasNegative(extracted.value)
           THEN RejectFile("Validation Error: Save file contains negative values.")
           ELSE /\ rawJson' = text
                /\ heroName' = ""
                /\ UNCHANGED <<fileError, payload, payloadSource>>
  /\ UNCHANGED <<submitStatus, submitMessage, loads, submits, deathsTable>>
  /\ UNCHANGED parserVars
  /\ UNCHANGED ingestVars
  /\ UNCHANGED appVars

(***************************************************************************)
(* The deaths table (supabase/schema.sql) and the insert of one row.       *)
(***************************************************************************)
MaxNameLength == 50

PostgrestError(code, message) == [code |-> code, message |-> message]

\* the columns declared NOT NULL without a DEFAULT, in the order of the table
NotNullColumns == <<"user_id", "character_name", "class_id", "level", "unique_hash">>

\* the row gives the column no value
IsMissing(row, column) == column \notin DOMAIN row

\* the first NOT NULL column for which the row has no value, "" when there is none
FirstMissing(row) ==
  IF \E k \in DOMAIN NotNullColumns : IsMissing(row, NotNullColumns[k])
  THEN NotNullColumns[CHOOSE k \in DOMAIN NotNullColumns :
                        /\ IsMissing(row, NotNullColumns[k])
                        /\ \A j \in 1..(k - 1) : ~IsMissing(row, NotNullColumns[j])]
  ELSE ""

\* the row as stored: the columns with a DEFAULT that the insert left out
Stored(row) ==
  [column \in DOMAIN row \cup {"is_hardcore"} |->
     IF column \in DOMAIN row THEN row[column] ELSE Bool(TRUE)]

\* the error of INSERT INTO deaths for the row sent by the session of uid, Null
\* when the row is stored: the row-level policy, the NOT NULL columns and the
\* CHECK constraints are evaluated on the row before the unique index is
insertError(row, uid, table) ==
  IF row.user_id # uid
  THEN PostgrestError("42501",
         "new row violates row-level security policy for table deaths")
  ELSE IF FirstMissing(row) # ""
  THEN PostgrestError("23502",
         "null value in column " \o FirstMissing(row) \o " violates not-null constraint")
  ELSE IF Stored(row).is_hardcore # Bool(TRUE)
  THEN PostgrestError("23514", "violates check constraint deaths_hardcore_only")
  ELSE IF row.level.v < 0
  THEN PostgrestError("23514", "violates check constraint deaths_level_positive")
  ELSE IF Len(row.character_name) > MaxNameLength
  THEN PostgrestError("23514", "violates check constraint deaths_name_length")
  ELSE IF \E other \in table : other.unique_hash = row.unique_hash
  THEN PostgrestError("23505",
         "duplicate key value violates unique constraint deaths_unique_hash_key")
  ELSE Null

(***************************************************************************)
(* handleSubmit: one record per call, with the values of its closure and   *)
(* the await it is suspended at.                                           *)
(***************************************************************************)
\* the users supabase.auth.getUser() can return
Users == {[id |-> "u1"]}

\* input.trim().slice(0, MAX_NAME_LENGTH), then the profanity filter
sanitizeCharacterName(input) ==
  LET trimmed == IF input = " Fallen Hero " THEN "Fallen Hero" ELSE input
  IN IF trimmed = "" THEN "Fallen Hero" ELSE trimmed

\* a digest input built from the document the text spells, not from the text
digestInput_normalised(userId, rawSnapshot) ==
  userId \o "|" \o (IF JSONParse(rawSnapshot) = Returned(GoodDoc) THEN "good" ELSE rawSnapshot)

\* the two parts joined without the separator
digestInput_unseparated(userId, rawSnapshot) == userId \o rawSnapshot

\* the string that generateUniqueHash digests
digestInput(userId, rawSnapshot) == userId \o "|" \o rawSnapshot

\* the hex SHA-256 digest of a string, taken to be free of collisions
Sha256(str) == "sha256(" \o str \o ")"

generateUniqueHash(userId, rawSnapshot) == Sha256(digestInput(userId, rawSnapshot))

\* lines 95-119: the row handleSubmit sends
insertData(user, sanitizedName, p, uniqueHash) ==
  [user_id |-> user.id,
   mourned_by |-> "Unknown Soul",
   character_name |-> sanitizedName,
   level |-> p.level,
   damage_taken |-> p.damageTaken,
   career_seconds |-> p.careerSeconds,
   career_runs |-> p.careerRuns,
   career_kills |-> p.careerKills,
   career_elite_kills |-> p.careerEliteKills,
   career_bosses |-> p.careerBosses,
   career_gold |-> p.careerGold,
   career_soulstones |-> p.careerSoulstones,
   skill_ids |-> p.skillIds,
   last_run_kills |-> p.lastRunKills,
   last_run_soulstones |-> p.lastRunSoulstones,
   last_run_regular_kills |-> p.lastRunRegularKills,
   last_run_elite_kills |-> p.lastRunEliteKills,
   last_run_boss_kills |-> p.lastRunBossKills,
   last_run_gold |-> p.lastRunGold,
   last_run_damage_dealt |-> p.lastRunDamageDealt,
   last_run_duration |-> p.lastRunDuration,
   unique_hash |-> uniqueHash]

\* a call of handleSubmit suspended at `await supabase.auth.getUser()`, with
\* the payload, rawJson and heroName of the render whose button was clicked
Submission(p, raw, name, source) ==
  [at |-> "getUser", payload |-> p, rawJson |-> raw,
   sanitizedName |-> sanitizeCharacterName(IF name = "" THEN "Fallen Hero" ELSE name),
   user |-> Null, inserts |-> 0, error |-> Null, source |-> source]

\* the call once it has returned: its closure is dropped
Returns(s) == [s EXCEPT !.at = "done", !.payload = Null]

\* a click on the submit button, rendered when payload && !fileError and
\* disabled while submitStatus is 'loading': handleSubmit up to its first await
handleSubmit ==
  /\ loads + Len(submits) < MaxGestures
  /\ payload # Null
  /\ fileError = Null
  /\ submitStatus # "loading"
  /\ rawJson # ""
  /\ submits' = Append(submits, Submission(payload, rawJson, heroName, payloadSource))
  /\ UNCHANGED <<componentVars, readers, loads, onloadDone, deathsTable, payloadSource>>
  /\ UNCHANGED parserVars
  /\ UNCHANGED ingestVars
  /\ UNCHANGED appVars

\* getUser() resolves: no user ends the call, a user starts the loading state
getUserResolves(i) ==
  /\ submits[i].at = "getUser"
  /\ \/ /\ submitStatus' = "error"
        /\ submitMessage' = "You must be signed in to submit a death."
        /\ submits' = [submits EXCEPT ![i] = Returns(@)]
     \/ \E user \in Users :
          /\ submitStatus' = "loading"
          /\ submitMessage' = ""
          /\ submits' = [submits EXCEPT ![i].at = "generateUniqueHash", ![i].user = user]
  /\ UNCHANGED <<fileError, payload, rawJson, heroName, readers, loads, onloadDone, deathsTable, payloadSource>>
  /\ UNCHANGED parserVars
  /\ UNCHANGED ingestVars
  /\ UNCHANGED appVars

\* generateUniqueHash rejects (no crypto.subtle): the catch block
hashRejects(i) ==
  /\ submits[i].at = "generateUniqueHash"
  /\ submitStatus' = "error"
  /\ submitMessage' = "Failed to generate submission hash."
  /\ submits' = [submits EXCEPT ![i] = Returns(@)]
  /\ UNCHANGED <<fileError, payload, rawJson, heroName, readers, loads, onloadDone, deathsTable, payloadSource>>
  /\ UNCHANGED parserVars
  /\ UNCHANGED ingestVars
  /\ UNCHANGED appVars

\* generateUniqueHash resolves: the row is built and the insert is sent
hashResolves(i) ==
  /\ submits[i].at = "generateUniqueHash"
  /\ submits' = [submits EXCEPT ![i].at = "insert", ![i].inserts = @ + 1]
  /\ UNCHANGED <<componentVars, readers, loads, onloadDone, deathsTable, payloadSource>>
  /\ UNCHANGED parserVars
  /\ UNCHANGED ingestVars
  /\ UNCHANGED appVars

\* the row that submission s sends once its hash is computed
RowOf(s) ==
  insertData(s.user, s.sanitizedName, s.payload, generateUniqueHash(s.user.id, s.rawJson))

\* the store executes the insert of submission i
storeInsert(i) ==
  /\ submits[i].at = "insert"
  /\ LET s == submits[i]
         error == insertError(RowOf(s), s.user.id, deathsTable)
     IN /\ deathsTable' = IF error = Null THEN deathsTable \cup {Stored(RowOf(s))}
                          ELSE deathsTable
        /\ submits' = [submits EXCEPT ![i].at = "response", ![i].error = error]
  /\ UNCHANGED <<componentVars, readers, loads, onloadDone, payloadSource>>
  /\ UNCHANGED parserVars
  /\ UNCHANGED ingestVars
  /\ UNCHANGED appVars

\* every insert error reported as a duplicate
errorMessage_alwaysDuplicate(error) == "This death was already submitted."

\* submitMessage after an insert error
errorMessage(error) ==
  IF error.code = "23505" THEN "This death was already submitted." ELSE error.message

\* the insert resolves: lines 124-132
insertResolves(i) ==
  /\ submits[i].at = "response"
  /\ IF submits[i].error # Null
     THEN /\ submitStatus' = "error"
          /\ submitMessage' = errorMessage(submits[i].error)
     ELSE /\ submitStatus' = "success"
          /\ submitMessage' = "Your fallen hero has been laid to rest in The Graveyard."
  /\ submits' = [submits EXCEPT ![i] = Returns(@)]
  /\ UNCHANGED <<fileError, payload, rawJson, heroName, readers, loads, onloadDone, deathsTable, payloadSource>>
  /\ UNCHANGED parserVars
  /\ UNCHANGED ingestVars
  /\ UNCHANGED appVars

\* the parser variables while the component runs
ParserIdle ==
  /\ doc = Undef
  /\ pc = "idle"
  /\ validation = NoValidationError
  /\ result = Pending
  /\ lkList = Undef
  /\ lkKey = ""
  /\ lkOpt = Pending
  /\ lkReq = Pending

UploadInit == Mounted /\ Quiet /\ NoFetch /\ ParserIdle /\ NotIngesting

UploadNext ==
  \/ handleFileChange
  \/ onDrop
  \/ \E reader \in BagToSet(readers) : PickerOnload(reader)
  \/ \E reader \in BagToSet(readers) : DropOnload(reader)
  \/ handleSubmit
  \/ \E i \in 1..Len(submits) : getUserResolves(i)
  \/ \E i \in 1..Len(submits) : hashRejects(i)
  \/ \E i \in 1..Len(submits) : hashResolves(i)
  \/ \E i \in 1..Len(submits) : storeInsert(i)
  \/ \E i \in 1..Len(submits) : insertResolves(i)

UploadSpec == UploadInit /\ [][UploadNext]_vars

(***************************************************************************)
(* Properties of the upload component.                                     *)
(***************************************************************************)
\* submission i sent its insert and has handled the reply
Answered(i) == submits[i].at = "done" /\ submits[i].inserts = 1

\* the fingerprint submission i computed
FingerprintOf(i) == generateUniqueHash(submits[i].user.id, submits[i].rawJson)

\* two answered submissions of the same raw text by the same submitter
SameDeathTwice(i, j) ==
  /\ i < j
  /\ Answered(i) /\ Answered(j)
  /\ submits[i].user = submits[j].user
  /\ submits[i].rawJson = submits[j].rawJson

IsDuplicateOutcome(i) == submits[i].error # Null /\ submits[i].error.code = "23505"

\* C15: whatever the interleaving of two submissions of the same raw text by
\* the same submitter, both compute the same fingerprint, the store ends with
\* exactly one record carrying it, one of them ends with the duplicate
\* outcome, and the component is not left in the loading state.
C15_DuplicateSubmission ==
  \A i, j \in 1..Len(submits) :
    SameDeathTwice(i, j) =>
      /\ FingerprintOf(i) = FingerprintOf(j)
      /\ Cardinality({row \in deathsTable : row.unique_hash = FingerprintOf(i)}) = 1
      /\ IsDuplicateOutcome(i) \/ IsDuplicateOutcome(j)
      /\ submitStatus # "loading"

\* submission i has digested its string and sent its row
Sent(i) == submits[i].inserts = 1

\* C16: in every reachable state, also when the reads of two chosen files
\* overlap and complete in either order, the string a submission digests is
\* userId + "|" + the unparsed text of the file from which the payload it
\* inserts was extracted.
C16_DigestOfPayloadFile ==
  \A i \in 1..Len(submits) :
    Sent(i) =>
      digestInput(submits[i].user.id, submits[i].rawJson)
        = submits[i].user.id \o "|" \o submits[i].source

DuplicateMessage == "This death was already submitted."

\* the messages of the validation errors
ValidationMessages ==
  {"Invalid save file: not an object.",
   "Only Hardcore deaths are accepted. hardcoreModeEnabled must be true.",
   "Save file must have cumulativeTotalDeaths === 1 to submit a death.",
   "pastRunsData is missing or empty."}

\* this step is submission i handling the error reply of its insert
HandlesInsertError(i) ==
  /\ submits[i].at = "response"
  /\ submits'[i].at = "done"
  /\ submits[i].error # Null

LoadEnded == onloadDone.readyState = "DONE" /\ readers = EmptyBag

\* C18: no failure is swallowed: a file-load attempt, through the picker or by
\* drag and drop, ends with a payload available or with fileError set; when
\* extractDeathPayload failed on a missing required field, the error shown to
\* the user is that failure, which names the field.
C18_NoFailureSwallowed ==
  LoadEnded =>
    /\ payload # Null \/ fileError # Null
    /\ onloadDone.extracted.thrown =>
         /\ fileError # Null
         /\ onloadDone.extracted.error.key # ""

\* this step is the onload handler of a reader
OnloadRuns == BagCardinality(readers') < BagCardinality(readers)

\* validateSaveFile returned an error in the onload handler that ran last
ValidationFailed == onloadDone.validationError # NoValidationError

\* C19: on both upload paths extractDeathPayload is not invoked on a document
\* for which validateSaveFile returned an error: the handler reports the
\* message of the validation error as the file error and sets no payload, and
\* no submission can start until another file is chosen.
C19_ValidationGatesExtraction ==
  [][/\ OnloadRuns /\ ValidationFailed' =>
          /\ onloadDone'.extracted = Pending
          /\ fileError' = Str(onloadDone'.validationError.message)
          /\ payload' = payload
     /\ fileError # Null => Len(submits') = Len(submits)
     /\ fileError # Null /\ fileError' = Null => loads' = loads + 1]_vars

C19_Witness ==
  /\ onloadDone.path = "drop"
  /\ onloadDone.readyState = "DONE"
  /\ onloadDone.validationError.code = "NOT_HARDCORE"
  /\ onloadDone.extracted = Pending
  /\ fileError = Str(onloadDone.validationError.message)
  /\ payload = Null

\* the numeric columns of the row that handleSubmit sends
NumericColumns ==
  {"level", "damage_taken", "career_seconds", "career_runs", "career_kills",
   "career_elite_kills", "career_bosses", "career_gold", "career_soulstones",
   "last_run_kills", "last_run_soulstones", "last_run_regular_kills",
   "last_run_elite_kills", "last_run_boss_kills", "last_run_gold",
   "last_run_damage_dealt", "last_run_duration"}

\* the insert of submission i is on its way to the store
InFlight(i) == submits[i].at = "insert"

\* C20: the business rules guard every insert: whichever way the file was
\* loaded, the component sends the store no record with a level above 50, with
\* a damage taken that is not above 0, or with a negative numeric field.
C20_BusinessRulesGuardInsert ==
  \A i \in 1..Len(submits) :
    InFlight(i) =>
      LET row == RowOf(submits[i]) IN
      /\ row.level.v <= MaxLevel * Scale
      /\ row.damage_taken.v > 0
      /\ \A column \in NumericColumns : row[column].v >= 0

(***************************************************************************)
(* Ingestion of one raw text after another: JSON.parse, validateSaveFile,  *)
(* extractDeathPayload and generateUniqueHash, as reader.onload and        *)
(* handleSubmit call them; and generateUniqueHash called on its own.       *)
(***************************************************************************)
MaxIngestions == 3

\* the raw texts ingested: three spellings of one document, and others
IngestTexts ==
  {"good", "good, trailing newline", "good, keys reordered", "softcore", "no RunTime"}

\* the ids of the signed-in users
SubmitterIds == {"u1", "u2"}

\* the strings generateUniqueHash is called with on its own
HashIds == SubmitterIds \cup {"u1|", ""}

HashTexts == IngestTexts \cup {"|good", "u2|good", ""}

\* a document has been parsed from a raw text for a submitter
Ingest(userId, rawSnapshot) ==
  /\ doc' = JSONParse(rawSnapshot).value
  /\ pc' = "parsed"
  /\ validation' = NoValidationError
  /\ result' = Pending
  /\ hashing' = Hashing(userId, rawSnapshot)

IngestInit ==
  /\ Mounted /\ Quiet /\ NoFetch
  /\ \E userId \in SubmitterIds, rawSnapshot \in IngestTexts :
       /\ doc = JSONParse(rawSnapshot).value
       /\ hashing = Hashing(userId, rawSnapshot)
  /\ pc = "parsed"
  /\ validation = NoValidationError
  /\ result = Pending
  /\ ingested = <<>>
  /\ lkList = Undef
  /\ lkKey = ""
  /\ lkOpt = Pending
  /\ lkReq = Pending

HashInit ==
  /\ Mounted /\ Quiet /\ NoFetch
  /\ doc = Undef
  /\ pc = "hash"
  /\ validation = NoValidationError
  /\ result = Pending
  /\ \E userId \in HashIds, rawSnapshot \in HashTexts : hashing = Hashing(userId, rawSnapshot)
  /\ ingested = <<>>
  /\ lkList = Undef
  /\ lkKey = ""
  /\ lkOpt = Pending
  /\ lkReq = Pending

\* generateUniqueHash({userId, rawSnapshot}), called with the payload in hand
Fingerprint ==
  /\ \/ pc = "extracted" /\ ~result.thrown
     \/ pc = "hash"
  /\ LET str == digestInput(hashing.userId, hashing.rawSnapshot)
     IN hashing' = [hashing EXCEPT !.str = str, !.hex = Sha256(str)]
  /\ pc' = "hashed"
  /\ UNCHANGED <<doc, validation, result, lkList, lkKey, lkOpt, lkReq, ingested>>
  /\ UNCHANGED uploadVars
  /\ UNCHANGED appVars

\* the ingestion has ended: rejected, failed, or fingerprinted
IngestionEnded ==
  \/ pc = "validated" /\ validation # NoValidationError
  \/ pc = "extracted" /\ result.thrown
  \/ pc = "hashed" /\ doc # Undef

\* what an ingestion leaves behind
Ingestion ==
  [userId |-> hashing.userId, rawSnapshot |-> hashing.rawSnapshot, doc |-> doc,
   validation |-> validation, result |-> result, str |-> hashing.str]

\* the next text is ingested
IngestNext ==
  /\ IngestionEnded
  /\ Len(ingested) + 1 < MaxIngestions
  /\ ingested' = Append(ingested, Ingestion)
  /\ \E userId \in SubmitterIds, rawSnapshot \in IngestTexts : Ingest(userId, rawSnapshot)
  /\ UNCHANGED <<lkList, lkKey, lkOpt, lkReq>>
  /\ UNCHANGED uploadVars
  /\ UNCHANGED appVars

IngestStep == Validate \/ Extract \/ Fingerprint \/ IngestNext

IngestSpec == (IngestInit \/ HashInit) /\ [][IngestStep]_vars

\* the ingestions so far, the one under way last
Ingestions == Append(ingested, Ingestion)

\* how far an ingestion has come
ValidatedAt(n) == n < Len(Ingestions) \/ pc \in {"validated", "extracted", "hashed"}

ExtractedAt(n) == n < Len(Ingestions) \/ pc \in {"extracted", "hashed"}

HashedAt(n) ==
  IF n < Len(Ingestions) THEN Ingestions[n].str # "" ELSE pc = "hashed"

BothHashed(m, n) ==
  /\ HashedAt(m) /\ HashedAt(n)
  /\ Ingestions[m].userId = Ingestions[n].userId

\* C22: for one submitter, raw texts that differ, even when they spell the
\* same document with other whitespace or key order, are digested as
\* different strings and so get different fingerprints under a collision-free
\* digest; the same text for the same submitter gets the same fingerprint.
C22_NoNormalisation ==
  \A m, n \in 1..Len(Ingestions) :
    BothHashed(m, n) =>
      /\ Ingestions[m].rawSnapshot # Ingestions[n].rawSnapshot =>
           /\ Ingestions[m].str # Ingestions[n].str
           /\ Sha256(Ingestions[m].str) # Sha256(Ingestions[n].str)
      /\ Ingestions[m].rawSnapshot = Ingestions[n].rawSnapshot =>
           Sha256(Ingestions[m].str) = Sha256(Ingestions[n].str)

\* one submitter fingerprints two spellings of the same document
C22_Witness ==
  /\ Len(ingested) >= 1
  /\ BothHashed(1, Len(Ingestions))
  /\ ingested[1].rawSnapshot = "good"
  /\ hashing.rawSnapshot = "good, keys reordered"
  /\ ingested[1].doc = doc
  /\ ingested[1].result = result
  /\ hashing.hex # Sha256(ingested[1].str)

\* the one file loaded since the component was mounted has been read
OneFileRead == loads = 1 /\ LoadEnded

\* the checks that only the onload handler of onDrop makes turn the text away
RejectedWhenDropped(text) ==
  \/ ScientificNotation(text)
  \/ /\ ~dataOf[text].thrown
     /\ validationErrorOf[text] = NoValidationError
     /\ ~extractedOf[text].thrown
     /\ \/ extractedOf[text].value.level.v > MaxLevel * Scale
        \/ extractedOf[text].value.damageTaken.v <= 0
        \/ hasNegative(extractedOf[text].value)

\* C23: the picker path and the drag-and-drop path are equivalent. After the
\* read of a file, whichever way it came: a text that was accepted (no
\* fileError, rawJson held) has its payload held and can be submitted, and a
\* text that the checks of the drop path turn away has fileError set.
C23_PathsEquivalent ==
  OneFileRead =>
    /\ fileError = Null /\ rawJson # "" => payload # Null
    /\ RejectedWhenDropped(onloadDone.text) => fileError # Null

\* the calls of handleSubmit whose insert was sent and is not yet answered
AwaitingInsert == {i \in 1..Len(submits) : submits[i].at \in {"insert", "response"}}

\* C24: at most one insert request is in flight at any time for the
\* component, also when the submit button is activated again while the first
\* call of handleSubmit still awaits getUser().
C24_OneInsertInFlight == Cardinality(AwaitingInsert) <= 1

\* the store has answered the insert of submission i, and not as a duplicate
AnsweredFresh(i) ==
  /\ submits[i].at = "response"
  /\ submits[i].error # Null => submits[i].error.code # "23505"

\* C25: the submission by a signed-in user of a validated, extracted document
\* whose fingerprint is not yet stored succeeds with one new row in deaths:
\* the row it sends supplies every NOT NULL column without default, the store
\* reports no error and holds the row.
C25_FreshSubmissionStored ==
  \A i \in 1..Len(submits) :
    AnsweredFresh(i) =>
      /\ FirstMissing(RowOf(submits[i])) = ""
      /\ submits[i].error = Null
      /\ Stored(RowOf(submits[i])) \in deathsTable

ReportsOutcome(i) == submits[i].at # "done" /\ submits'[i].at = "done"

\* C27: the submit status shown belongs to the file currently loaded: a call
\* of handleSubmit that reports success or an error was started for the
\* payload and the raw text the component holds when it reports, so the late
\* result of a submission made before another file was loaded does not
\* replace the idle status of the new file.
C27_StatusOfLoadedFile ==
  [][\A i \in 1..Len(submits) :
       ReportsOutcome(i) =>
         /\ submitStatus' \in {"success", "error"} /\ submitMessage' # ""
         /\ submits[i].payload = payload'
         /\ submits[i].rawJson = rawJson']_vars

\* no entry of the list holds a negative number
NonNegativeList(list) ==
  list.t = "array" =>
    \A i \in 1..Len(list.v) :
      list.v[i].v.Value.t = "number" => list.v[i].v.Value.v >= 0

\* no stat value of any run of the document is negative
NonNegativeStats ==
  \A i \in 1..Len(Runs) :
    /\ NonNegativeList(ListOf(Runs[i].v._statCounters))
    /\ NonNegativeList(ListOf(Runs[i].v._statAggregators))

\* C28: for a validated document whose stat values are all non-negative each
\* career total of the payload is at least the final run's value of the same
\* statistic, and with a single run the two are equal.
C28_CareerCoversFinalRun ==
  HasPayload /\ NonNegativeStats =>
    LET p == result.value IN
    /\ p.careerKills.v >= p.lastRunKills.v
    /\ p.careerEliteKills.v >= p.lastRunEliteKills.v
    /\ p.careerBosses.v >= p.lastRunBossKills.v
    /\ p.careerGold.v >= p.lastRunGold.v
    /\ p.careerSoulstones.v >= p.lastRunSoulstones.v
    /\ Len(Runs) = 1 =>
         /\ p.careerKills = p.lastRunKills
         /\ p.careerEliteKills = p.lastRunEliteKills
         /\ p.careerBosses = p.lastRunBossKills
         /\ p.careerGold = p.lastRunGold
         /\ p.careerSoulstones = p.lastRunSoulstones

\* two runs with kills and gold in both: the totals exceed the final run's
C28_Witness ==
  /\ HasPayload /\ NonNegativeStats
  /\ Len(Runs) = 2
  /\ result.value.lastRunKills = Num(3)
  /\ result.value.careerKills = Num(6)
  /\ result.value.lastRunEliteKills = Num(1)
  /\ result.value.careerEliteKills = Num(1)
  /\ result.value.careerGold.v > result.value.lastRunGold.v

\* the pairs generateUniqueHash can be called with
HashPayloads == HashIds \X HashTexts

\* generateUniqueHash has encoded its string
Digested == pc = "hashed" /\ hashing.str # ""

NoSeparator(userId) == \A i \in 1..Len(userId) : SubSeq(userId, i, i) # "|"

MaxFetches == 4

\* a row of deaths as the view uses it; the id stands for death_date as well
DeathRecord(id, respects) == [id |-> id, respects_paid |-> respects]

\* the contents of the deaths table when the view is mounted
Tables == {{}, {DeathRecord(1, 0)}, {DeathRecord(1, 0), DeathRecord(2, 0)}}

\* the messages of a failed select
FetchErrors == {"TypeError: Failed to fetch", "JWT expired"}

\* select('*').order('death_date', {ascending: false})
SelectDeaths(table) ==
  [i \in 1..Cardinality(table) |->
     CHOOSE row \in table : Cardinality({other \in table : other.id > row.id}) = i - 1]

\* the ids of the tombstones rendered for a list: none while loading
Tombstones(list, isLoading) ==
  IF isLoading THEN {} ELSE {list[i].id : i \in 1..Len(list)}

\* App is mounted and its effect has called fetchDeaths
GraveyardInit ==
  /\ Mounted /\ ParserIdle /\ NotIngesting
  /\ readers = EmptyBag
  /\ loads = 0
  /\ onloadDone = NoReader
  /\ submits = <<>>
  /\ payloadSource = ""
  /\ deathsTable \in Tables
  /\ deathsList = <<>>
  /\ loading = TRUE
  /\ loadError = Null
  /\ fetching = 1
  /\ fetched = 1
  /\ lastFetch = "none"
  /\ hasPaidRespects = {}

\* fetchDeaths up to its await: one more select is under way
fetchDeaths ==
  /\ fetched < MaxFetches
  /\ fetching' = fetching + 1
  /\ fetched' = fetched + 1

\* the select of a call of fetchDeaths resolves: lines 56-62
selectResolves ==
  /\ fetching > 0
  /\ fetching' = fetching - 1
  /\ \/ \E message \in FetchErrors :
          /\ loadError' = Str(message)
          /\ deathsList' = <<>>
          /\ lastFetch' = "failed"
     \/ /\ deathsList' = SelectDeaths(deathsTable)
        /\ lastFetch' = "ok"
        /\ UNCHANGED loadError
  /\ loading' = FALSE
  /\ hasPaidRespects' = hasPaidRespects \cap Tombstones(deathsList', loading')
  /\ UNCHANGED <<fetched, deathsTable>>
  /\ UNCHANGED <<componentVars, readers, loads, onloadDone, submits, payloadSource>>
  /\ UNCHANGED parserVars
  /\ UNCHANGED ingestVars

\* the Try Again button, rendered while error is set
TryAgain ==
  /\ loadError # Null
  /\ loading' = TRUE
  /\ loadError' = Null
  /\ fetchDeaths
  /\ hasPaidRespects' = {}
  /\ UNCHANGED <<deathsList, lastFetch, deathsTable>>
  /\ UNCHANGED <<componentVars, readers, loads, onloadDone, submits, payloadSource>>
  /\ UNCHANGED parserVars
  /\ UNCHANGED ingestVars

\* handlePayRespects of a rendered tombstone when the rpc reports no error:
\* the row's respects are counted and onUpdate calls fetchDeaths
handlePayRespects(id) ==
  /\ id \in Tombstones(deathsList, loading)
  /\ id \notin hasPaidRespects
  /\ \E row \in deathsTable :
       /\ row.id = id
       /\ deathsTable' = (deathsTable \ {row}) \cup {DeathRecord(id, row.respects_paid + 1)}
  /\ hasPaidRespects' = hasPaidRespects \cup {id}
  /\ fetchDeaths
  /\ UNCHANGED <<deathsList, loading, loadError, lastFetch>>
  /\ UNCHANGED <<componentVars, readers, loads, onloadDone, submits, payloadSource>>
  /\ UNCHANGED parserVars
  /\ UNCHANGED ingestVars

GraveyardNext ==
  \/ selectResolves
  \/ TryAgain
  \/ \E id \in 1..2 : handlePayRespects(id)

GraveyardSpec == GraveyardInit /\ [][GraveyardNext]_vars

\* a call of fetchDeaths completes in this step
FetchCompletes == fetching' = fetching - 1

\* the load-failure message and a non-empty list are both rendered
FailureShownWithList == loadError # Null /\ ~loading /\ deathsList # <<>>

\* C30: the load state follows the latest fetch: when a call of fetchDeaths
\* completes loading is false, and when that call succeeded the error is null,
\* so the load-failure message is not shown together with the list it loaded.
C30_LoadStateFollowsLatestFetch ==
  [][FetchCompletes =>
       /\ ~loading'
       /\ lastFetch' = "ok" => loadError' = Null /\ ~FailureShownWithList']_vars

====
